---- MODULE Spec2Model ----
\* A model of the extraction pipeline of cv_extractor:
\*   preprocess/postprocessing.py  (postprocess_extracted_data, merge_documents)
\*   preprocess/extractor.py       (DocumentExtractor.extract_from_document)
\*   preprocess/run_pipeline.py    (Processor.load_documents, run_extraction_pipeline)
EXTENDS Integers, Sequences, FiniteSets, TLC

\* ---------------------------------------------------------------- bounds
\* Longest batch handed to merge_documents.
MaxBatch == 2
\* Most files in the input directory.
MaxFiles == 3

\* ---------------------------------------------------------------- values
\* A Python/JSON value is a record of one shape, so that any two values can be
\* compared: t is the type tag, s the text of a string as a sequence of
\* pieces, n the number of an int, l the elements of a list, d the
\* (key, value) pairs of a dict in insertion order.
Null == [t |-> "null", s |-> <<>>, n |-> 0, l |-> <<>>, d |-> <<>>]
StrV(pieces) == [t |-> "str", s |-> pieces, n |-> 0, l |-> <<>>, d |-> <<>>]
IntV(k) == [t |-> "int", s |-> <<>>, n |-> k, l |-> <<>>, d |-> <<>>]
ListV(items) == [t |-> "list", s |-> <<>>, n |-> 0, l |-> items, d |-> <<>>]
DictV(pairs) == [t |-> "dict", s |-> <<>>, n |-> 0, l |-> <<>>, d |-> pairs]

\* A mapping with string keys (a result, a document's metadata) is a function
\* from its key set; EmptyMap is {}.
EmptyMap == [k \in {} |-> Null]
HasKey(m, k) == k \in DOMAIN m
\* dict.get(k, default)
Get(m, k, default) == IF k \in DOMAIN m THEN m[k] ELSE default
\* dict.pop(k, None) on a mapping
Pop(m, k) == [x \in (DOMAIN m) \ {k} |-> m[x]]
\* m[k] = v
Put(m, k, v) == [x \in (DOMAIN m) \cup {k} |-> IF x = k THEN v ELSE m[x]]

\* Python truthiness of a value: None, "", 0, [] and {} are falsy.
Truthy(v) ==
    CASE v.t = "null" -> FALSE
      [] v.t = "str" -> v.s # <<>>
      [] v.t = "int" -> v.n # 0
      [] v.t = "list" -> v.l # <<>>
      [] OTHER -> v.d # <<>>

\* Python == on two values. A dict equals a dict with the same (key, value)
\* pairs whatever the insertion order; keys are unique inside one dict.
PairSet(pairs) == {pairs[i] : i \in 1..Len(pairs)}
PyEq(a, b) ==
    IF a.t = "dict" /\ b.t = "dict"
    THEN PairSet(a.d) = PairSet(b.d)
    ELSE a = b

\* ------------------------------------------------- postprocessing.py
\* A mutant of postprocess_extracted_data: "if v" in place of "if v is not
\* None", which also drops "", 0, [] and {}.
postprocess_drop_falsy(data) ==
    [k \in {x \in DOMAIN data : Truthy(data[x])} |-> data[k]]
\* {k: v for k, v in data.items() if v is not None}
postprocess_extracted_data(data) ==
    [k \in {x \in DOMAIN data : data[x] # Null} |-> data[k]]

list_fields ==
    <<"professional_experience", "education", "skills", "languages",
      "certifications", "profiles">>

scalar_fields ==
    <<"name", "summary", "email", "phone", "location", "years_experience",
      "current_position", "current_company">>

\* The order sorted() puts dict keys in: Python compares strings by code
\* point, which for these lower-case keys is alphabetical order.
KeyOrder ==
    <<"city", "company", "country", "degree", "description", "end_date",
      "field", "institution", "language", "network", "position",
      "proficiency", "region", "start_date", "url", "year">>
KeyRank(k) == CHOOSE i \in 1..Len(KeyOrder) : KeyOrder[i] = k

\* sorted(item.items()): the pairs by key. Keys are unique, so the values are
\* never compared.
RECURSIVE InsertPair(_, _)
InsertPair(p, sortedPairs) ==
    IF sortedPairs = <<>> THEN <<p>>
    ELSE IF KeyRank(p[1]) < KeyRank(Head(sortedPairs)[1])
         THEN <<p>> \o sortedPairs
         ELSE <<Head(sortedPairs)>> \o InsertPair(p, Tail(sortedPairs))
RECURSIVE SortedPairs(_)
SortedPairs(pairs) ==
    IF pairs = <<>> THEN <<>>
    ELSE InsertPair(Head(pairs), SortedPairs(Tail(pairs)))

\* A mutant of DedupKey: tuple(item.items()) without sorted().
DedupKeyUnsorted(item) == item
\* t = tuple(sorted(item.items())) if isinstance(item, dict) else item
DedupKey(item) ==
    IF item.t = "dict" THEN DictV(SortedPairs(item.d)) ELSE item

\* The inner loop over one document's items: st = [seen, out].
RECURSIVE MergeItems(_, _)
MergeItems(items, st) ==
    IF items = <<>> THEN st
    ELSE LET item == Head(items)
             t == DedupKey(item)
         IN IF t \notin st.seen
            THEN MergeItems(Tail(items),
                            [seen |-> st.seen \cup {t}, out |-> Append(st.out, item)])
            ELSE MergeItems(Tail(items), st)

\* The loop over the results for one list field.
RECURSIVE MergeListField(_, _, _)
MergeListField(results, field, st) ==
    IF results = <<>> THEN st
    ELSE LET items == Get(Head(results), field, ListV(<<>>))
         IN IF Truthy(items)
            THEN MergeListField(Tail(results), field, MergeItems(items.l, st))
            ELSE MergeListField(Tail(results), field, st)

\* val not in (None, '', [], {})
NonEmptyScalar(val) ==
    ~ (\/ PyEq(val, Null)
       \/ PyEq(val, StrV(<<>>))
       \/ PyEq(val, ListV(<<>>))
       \/ PyEq(val, DictV(<<>>)))

\* A mutant of FirstNonEmpty: no break, so the last non-empty value wins.
RECURSIVE LastNonEmpty(_, _)
LastNonEmpty(results, field) ==
    IF results = <<>> THEN Null
    ELSE LET later == LastNonEmpty(Tail(results), field)
             val == Get(Head(results), field, Null)
         IN IF later # Null THEN later
            ELSE IF NonEmptyScalar(val) THEN val ELSE Null
\* The loop over the results for one scalar field: the value that ends up in
\* merged[field], or Null when the loop ends without assigning.
RECURSIVE FirstNonEmpty(_, _)
FirstNonEmpty(results, field) ==
    IF results = <<>> THEN Null
    ELSE LET val == Get(Head(results), field, Null)
         IN IF NonEmptyScalar(val) THEN val
            ELSE FirstNonEmpty(Tail(results), field)

Range(seq) == {seq[i] : i \in 1..Len(seq)}

\* A mutant of MergeMany: merged starts as a copy of the first result, so the
\* keys the loops do not assign stay in it.
MergeManyOverFirst(results) ==
    LET lists == [f \in Range(list_fields) |->
                    ListV(MergeListField(results, f, [seen |-> {}, out |-> <<>>]).out)]
        scalarKeys == {f \in Range(scalar_fields) : FirstNonEmpty(results, f) # Null}
        scalars == [f \in scalarKeys |-> FirstNonEmpty(results, f)]
        merged == [f \in Range(list_fields) \cup scalarKeys |->
                     IF f \in Range(list_fields) THEN lists[f] ELSE scalars[f]]
    IN Pop(Pop(Pop(merged @@ results[1], "source"), "file_name"), "page")
\* merged after both loops and the three pop() calls.
MergeMany(results) ==
    LET lists == [f \in Range(list_fields) |->
                    ListV(MergeListField(results, f, [seen |-> {}, out |-> <<>>]).out)]
        scalarKeys == {f \in Range(scalar_fields) : FirstNonEmpty(results, f) # Null}
        scalars == [f \in scalarKeys |-> FirstNonEmpty(results, f)]
        merged == [f \in Range(list_fields) \cup scalarKeys |->
                     IF f \in Range(list_fields) THEN lists[f] ELSE scalars[f]]
    IN Pop(Pop(Pop(merged, "source"), "file_name"), "page")

\* A mutant of merge_documents: no early return for a single result.
merge_documents_no_identity(results) ==
    IF results = <<>> THEN EmptyMap ELSE MergeMany(results)
\* A mutant of merge_documents: any non-empty batch returns its first result.
merge_documents_first(results) ==
    IF results = <<>> THEN EmptyMap ELSE results[1]
merge_documents(results) ==
    IF results = <<>> THEN EmptyMap
    ELSE IF Len(results) = 1 THEN results[1]
    ELSE MergeMany(results)

\* ------------------------------------------------ inputs of the merge engine
\* The marker of a key that a sample result does not have.
Absent == [t |-> "absent", s |-> <<>>, n |-> 0, l |-> <<>>, d |-> <<>>]
Field(k, v) == IF v = Absent THEN EmptyMap ELSE (k :> v)

ProfileA ==
    DictV(<<<<"network", StrV(<<"LinkedIn">>)>>, <<"url", StrV(<<"li/jd">>)>>>>)
\* The same profile with its keys inserted in the other order.
ProfileASwapped ==
    DictV(<<<<"url", StrV(<<"li/jd">>)>>, <<"network", StrV(<<"LinkedIn">>)>>>>)
ProfileB ==
    DictV(<<<<"network", StrV(<<"GitHub">>)>>, <<"url", Null>>>>)

NameOpts ==
    {Absent, Null, StrV(<<>>), StrV(<<"X">>), StrV(<<"Y">>), ListV(<<>>), DictV(<<>>)}
YearsOpts == {Absent, IntV(0)}
SkillOpts ==
    {Absent,
     ListV(<<StrV(<<"Python">>), StrV(<<"SQL">>)>>),
     ListV(<<StrV(<<"SQL">>), StrV(<<"Go">>)>>),
     ListV(<<StrV(<<"SQL">>), StrV(<<"SQL">>)>>)}
ProfileOpts ==
    {Absent, ListV(<<ProfileA>>), ListV(<<ProfileASwapped, ProfileB>>)}

\* A successful result as extract_from_document builds it: the schema's
\* fields plus source, file_name and page, here also with a metadata mapping.
FullResult(who, file) ==
    [summary |-> StrV(<<"engineer">>),
     name |-> StrV(<<who>>),
     location |-> DictV(<<<<"city", StrV(<<"Oslo">>)>>, <<"country", Null>>>>),
     email |-> Null,
     skills |-> ListV(<<StrV(<<"SQL">>), StrV(<<"SQL">>)>>),
     profiles |-> ListV(<<ProfileA>>),
     source |-> StrV(<<"in", "/", file>>),
     file_name |-> StrV(<<file>>),
     page |-> IntV(0),
     metadata |-> DictV(<<<<"title", StrV(<<"cv">>)>>>>)]
\* The shape of the example of the postprocess property: a null, an empty
\* list, an empty mapping and a string.
SparseResult ==
    [name |-> Null, skills |-> ListV(<<>>), location |-> DictV(<<>>),
     summary |-> StrV(<<"x">>)]
ErrorSample ==
    [error |-> StrV(<<"Error processing document ", "in", "/", "c.txt", ": ", "boom">>),
     source_file |-> StrV(<<"in", "/", "c.txt">>)]
\* A result of the invoice schema: none of its keys is a field of the merge.
InvoiceSample ==
    [invoice_number |-> StrV(<<"INV-1">>),
     items |-> ListV(<<DictV(<<<<"description", StrV(<<"bolt">>)>>>>)>>),
     total_amount |-> IntV(7)]

SampleResults ==
    {Field("name", a) @@ Field("years_experience", y) : a \in NameOpts, y \in YearsOpts}
    \cup {Field("skills", sk) @@ Field("profiles", pr) : sk \in SkillOpts, pr \in ProfileOpts}
    \cup {FullResult("X", "a.pdf"), FullResult("Z", "b.pdf"), SparseResult, ErrorSample,
            InvoiceSample}

RECURSIVE SeqsUpTo(_, _)
SeqsUpTo(S, n) ==
    IF n = 0 THEN {<<>>}
    ELSE LET shorter == SeqsUpTo(S, n - 1)
         IN shorter \cup {Append(q, x) : q \in {r \in shorter : Len(r) = n - 1}, x \in S}

\* ---------------------------------------------------------------- state
VARIABLES
    \* run_postprocessing: the batch read from the raw output file, its
    \* postprocessed results, the merged result, and which steps have run.
    batch, cleaned, merged, applied,
    \* run_extraction_pipeline: the input path, the output file, the loaded
    \* documents, the results list, whether an LLM call is awaited, the
    \* outcome of each finished LLM call, the exception that reached the
    \* except clause, the value returned, and the position in the function.
    input_path, output_file, documents, results, awaiting, llm, caught, returned, pc,
    \* The index of the document of each LLM call started so far, in the
    \* order the calls were started.
    started,
    \* The sync/async bridge: the call (which copy of the bridge, the
    \* operation given, the state of the calling thread's event loop at the
    \* call), the current state of that loop and who made it, the position
    \* of the calling thread, the worker thread and the loop asyncio.run
    \* makes on it, the loop asyncio.run makes on the calling thread, the
    \* state of the operation, the places the coroutine was handed to for
    \* running, the Future of the submission, what future.result() gave,
    \* whether the bound of the wait has passed, and the outcome of the call.
    call, loop, loopMadeBy, bpc, worker, workerLoop, ownLoop, opState, handed,
    future, got, elapsed, bresult,
    \* main and extract_from_file_async: what the command line and the
    \* environment give (whether the input path exists, the schema module
    \* named, whether the credential is set, whether the output directory can
    \* be made and a file in it removed), the position in the two functions,
    \* what load_schema gave, what extract_from_file_async returned, the exception that left it,
    \* and the exit code.
    request, epc, schema_class, eresult, eraised, exit_code,
    \* Two invocations of extract_from_file_async under way at once: the
    \* state of each, and the files of the file system they write to.
    runs, fs

mergeVars == <<batch, cleaned, merged, applied>>
pipeVars ==
    <<input_path, output_file, documents, results, awaiting, llm, caught, returned, pc,
      started>>
entryVars == <<request, epc, schema_class, eresult, eraised, exit_code>>
runsVars == <<runs, fs>>
bridgeVars ==
    <<call, loop, loopMadeBy, bpc, worker, workerLoop, ownLoop, opState, handed,
      future, got, elapsed, bresult>>
vars ==
    <<batch, cleaned, merged, applied,
      input_path, output_file, documents, results, awaiting, llm, caught, returned, pc,
      started,
      call, loop, loopMadeBy, bpc, worker, workerLoop, ownLoop, opState, handed,
      future, got, elapsed, bresult,
      request, epc, schema_class, eresult, eraised, exit_code,
      runs, fs>>

\* ---------------------------------------------------- files and documents
\* A file of the input directory: its stem, its suffix, whether its loader
\* can read it, and its text page by page (one page for docx and txt).
FileA == [stem |-> "a", ext |-> ".pdf", readable |-> TRUE, pages |-> <<"A1", "A2">>]
FileB == [stem |-> "b", ext |-> ".pdf", readable |-> TRUE, pages |-> <<"B1">>]
FileC == [stem |-> "c", ext |-> ".txt", readable |-> TRUE, pages |-> <<"C1">>]
FileD == [stem |-> "d", ext |-> ".docx", readable |-> FALSE, pages |-> <<>>]
FileE == [stem |-> "e", ext |-> ".doc", readable |-> TRUE, pages |-> <<"E1">>]
FileN == [stem |-> "n", ext |-> ".png", readable |-> TRUE, pages |-> <<"N1">>]
\* A PDF whose suffix is written in upper case.
FileR == [stem |-> "r", ext |-> ".PDF", readable |-> TRUE, pages |-> <<"R1">>]
FileUniverse == {FileA, FileB, FileC, FileD, FileE, FileN, FileR}

\* str.lower() on a suffix.
LowerExt(ext) ==
    CASE ext = ".PDF" -> ".pdf"
      [] ext = ".DOCX" -> ".docx"
      [] ext = ".DOC" -> ".doc"
      [] ext = ".TXT" -> ".txt"
      [] OTHER -> ext

InputDirName == "in"
\* str(file_path) for a file of the input directory, as pieces of text.
PathOf(f) == <<InputDirName, "/", f.stem, f.ext>>

\* os.path.basename: the pieces after the last separator.
RECURSIVE basename(_)
basename(pieces) ==
    IF pieces = <<>> THEN <<>>
    ELSE IF \E i \in 1..Len(pieces) : pieces[i] = "/"
         THEN basename(Tail(pieces))
         ELSE pieces

\* "\n".join(texts)
RECURSIVE JoinLines(_)
JoinLines(texts) ==
    IF texts = <<>> THEN <<>>
    ELSE IF Len(texts) = 1 THEN <<texts[1]>>
    ELSE <<texts[1], "\n">> \o JoinLines(Tail(texts))

Document(page_content, metadata) ==
    [page_content |-> page_content, metadata |-> metadata]

\* loader.load() of PyPDFLoader: one Document per page, page k (counted
\* from 0) with the metadata {source, page: k}.
PdfPages(f) ==
    [k \in 1..Len(f.pages) |->
        Document(<<f.pages[k]>>,
                 ("source" :> StrV(PathOf(f))) @@ ("page" :> IntV(k - 1)))]
\* The page_content of each of a sequence of documents.
RECURSIVE PageTexts(_)
PageTexts(pages) ==
    IF pages = <<>> THEN <<>>
    ELSE Head(pages).page_content \o PageTexts(Tail(pages))
\* A mutant of load_pdf: the loader's pages are returned as they are, one
\* Document per page.
load_pdf_per_page(f) ==
    IF ~ f.readable THEN <<>> ELSE PdfPages(f)
\* Processor._load_pdf: one Document for the whole file, with the first
\* page's metadata and the file path as source; [] when the loader raises or
\* finds no page.
load_pdf(f) ==
    IF ~ f.readable THEN <<>>
    ELSE LET pages == PdfPages(f)
         IN IF pages = <<>> THEN <<>>
            ELSE <<Document(JoinLines(PageTexts(pages)),
                            Put(pages[1].metadata, "source", StrV(PathOf(f))))>>
\* Processor._load_docx and Processor._load_text: what the library loader
\* returns, one Document with the path as source, or [] when it raises.
load_docx(f) ==
    IF ~ f.readable THEN <<>>
    ELSE <<Document(JoinLines(f.pages), "source" :> StrV(PathOf(f)))>>
load_text(f) ==
    IF ~ f.readable THEN <<>>
    ELSE <<Document(JoinLines(f.pages), "source" :> StrV(PathOf(f)))>>

\* Processor.supported_extensions, in the order the dict holds them.
supported_extensions == <<".pdf", ".docx", ".doc", ".txt">>
LoaderFor(ext, f) ==
    CASE ext = ".pdf" -> load_pdf(f)
      [] ext = ".docx" -> load_docx(f)
      [] ext = ".doc" -> load_docx(f)
      [] OTHER -> load_text(f)

\* The documents of the files of one listing, in its order.
RECURSIVE LoadEach(_, _)
LoadEach(ext, listing) ==
    IF listing = <<>> THEN <<>>
    ELSE LoaderFor(ext, Head(listing)) \o LoadEach(ext, Tail(listing))
\* input_dir.glob("*" + ext) over a directory whose entries come in the
\* order of listing. pathlib matches the suffix with its case on a POSIX
\* system and without it on Windows.
Glob(listing, ext, caseSensitive) ==
    SelectSeq(listing, LAMBDA f : IF caseSensitive THEN f.ext = ext
                                  ELSE LowerExt(f.ext) = ext)
RECURSIVE LoadDirectory(_, _, _)
LoadDirectory(exts, listing, caseSensitive) ==
    IF exts = <<>> THEN <<>>
    ELSE LoadEach(Head(exts), Glob(listing, Head(exts), caseSensitive))
         \o LoadDirectory(Tail(exts), listing, caseSensitive)

\* Processor.load_documents for an input whose directory entries come in the
\* order of listing (for a file input, the file alone).
load_documents(isDir, listing, caseSensitive) ==
    IF ~ isDir
    THEN LET f == listing[1]
             ext == LowerExt(f.ext)
         IN IF ext \in Range(supported_extensions)
            THEN LoaderFor(ext, f) ELSE <<>>
    ELSE LoadDirectory(supported_extensions, listing, caseSensitive)

\* The orders in which the operating system may list a set of files.
RECURSIVE Listings(_)
Listings(S) ==
    IF S = {} THEN {<<>>}
    ELSE UNION {{<<f>> \o rest : rest \in Listings(S \ {f})} : f \in S}

\* ------------------------------------------------------- extractor.py
\* What the chain answers for a document when the call succeeds:
\* result.dict() of the schema object.
SchemaPayload(document) ==
    [summary |-> StrV(<<"summary of ">> \o document.page_content),
     name |-> StrV(<<"X">>),
     email |-> Null,
     skills |-> ListV(<<StrV(<<"SQL">>)>>)]
\* str(e) of the exception a failed call raises.
LlmErrorText == <<"boom">>
\* How a call to the chain can end: a schema object, an exception, or None.
LlmOutcomes == {"ok", "raise", "none"}

\* source_file as lines 36-42 compute it; a Document has no source attribute.
SourceFileOf(document) ==
    LET md == document.metadata
        a == Get(md, "source", Null)
        b == Get(md, "file_path", Null)
    IN IF Truthy(a) THEN a
       ELSE IF Truthy(b) THEN b
       ELSE StrV(<<"unknown">>)

\* data with source, file_name and page added (lines 60-71).
WithProvenance(data, md) ==
    LET src == IF HasKey(md, "source") THEN Put(data, "source", md["source"])
               ELSE IF HasKey(md, "file_path") THEN Put(data, "source", md["file_path"])
               ELSE data
        named == IF HasKey(md, "source")
                 THEN Put(src, "file_name", StrV(basename(md["source"].s)))
                 ELSE IF HasKey(md, "file_path")
                 THEN Put(src, "file_name", StrV(basename(md["file_path"].s)))
                 ELSE src
    IN IF HasKey(md, "page") THEN Put(named, "page", md["page"]) ELSE named

\* A mutant of ErrorResult: the error keys are added to the data built so
\* far instead of replacing it.
ErrorResultOverData(document) ==
    Put(Put(WithProvenance(SchemaPayload(document), document.metadata),
            "error", StrV(<<"Error processing document ">> \o LlmErrorText)),
        "source_file", StrV(<<"unknown">>))
\* Lines 83-85: the mapping returned from the except clause.
ErrorResult(document) ==
    [error |-> StrV(<<"Error processing document ">> \o SourceFileOf(document).s
                     \o <<": ">> \o LlmErrorText),
     source_file |-> SourceFileOf(document)]

Returns(value) == [raised |-> FALSE, value |-> value]
Raises == [raised |-> TRUE, value |-> EmptyMap]

\* A mutant of extract_from_document: no except clause, the exception of the
\* chain propagates to the caller.
extract_without_except(document, outcome) ==
    CASE outcome = "ok" -> Returns(WithProvenance(SchemaPayload(document), document.metadata))
      [] outcome = "none" -> Returns(EmptyMap)
      [] OTHER -> Raises
\* A mutant of extract_from_document: a call that yields None is reported
\* like a failed one.
extract_none_as_error(document, outcome) ==
    CASE outcome = "ok" -> Returns(WithProvenance(SchemaPayload(document), document.metadata))
      [] OTHER -> Returns(ErrorResult(document))
\* DocumentExtractor.extract_from_document, given how the call to the chain
\* ends.
extract_from_document(document, outcome) ==
    CASE outcome = "ok" -> Returns(WithProvenance(SchemaPayload(document), document.metadata))
      [] outcome = "none" -> Returns(EmptyMap)
      [] OTHER -> Returns(ErrorResult(document))

\* ------------------------------------------------------ run_pipeline.py
\* What the output file holds and what the run returns: nothing, a list of
\* results, one mapping, text cut short by a failed write, or (for the
\* return) an exception that left the function.
NoValue == [kind |-> "none", items |-> <<>>, map |-> EmptyMap]
ListValue(rs) == [kind |-> "list", items |-> rs, map |-> EmptyMap]
DictValue(m) == [kind |-> "dict", items |-> <<>>, map |-> m]
PartialText == [kind |-> "partial", items |-> <<>>, map |-> EmptyMap]
RaisedOut == [kind |-> "raised", items |-> <<>>, map |-> EmptyMap]
\* An output file left by an earlier run.
StaleFile == DictValue("name" :> StrV(<<"old">>))

\* str(e) of the exception a failed write raises.
WriteErrorText == <<"cannot write">>

Inputs ==
    {[isDir |-> TRUE, files |-> S] :
        S \in {T \in SUBSET FileUniverse : Cardinality(T) <= MaxFiles}}
    \cup {[isDir |-> FALSE, files |-> {f}] : f \in FileUniverse}

\* The exit code of a process that has not exited.
NotExited == -1
\* main when it has not been entered.
NoRequest ==
    [exists |-> FALSE, schema |-> "cv_schema", has_key |-> FALSE, outputs |-> "ok",
     stale |-> FALSE]
\* load_schema has not been called.
NotLoaded == [raised |-> FALSE, type |-> "none", message |-> <<>>, value |-> "none"]
EntryIdle ==
    /\ request = NoRequest
    /\ epc = "idle"
    /\ schema_class = NotLoaded
    /\ eresult = NoValue
    /\ eraised = "none"
    /\ exit_code = NotExited
\* No concurrent invocations.
RunsIdle ==
    /\ runs = <<>>
    /\ fs = <<>>

\* The bridge when no call of it is under way.
NoCall == [bridge |-> "none", isCoroutine |-> FALSE, ends |-> "returns", host |-> "unset"]
BridgeIdle ==
    /\ call = NoCall
    /\ loop = "unset"
    /\ loopMadeBy = "host"
    /\ bpc = "idle"
    /\ worker = "none"
    /\ workerLoop = "none"
    /\ ownLoop = "none"
    /\ opState = "created"
    /\ handed = <<>>
    /\ future = "none"
    /\ got = "none"
    /\ elapsed = FALSE
    /\ bresult = "none"

PipeIdle ==
    /\ input_path = [isDir |-> TRUE, files |-> {}]
    /\ output_file = NoValue
    /\ documents = <<>>
    /\ results = <<>>
    /\ awaiting = FALSE
    /\ llm = <<>>
    /\ caught = "none"
    /\ returned = NoValue
    /\ pc = "idle"
    /\ started = <<>>

MergeIdle ==
    /\ batch = <<>>
    /\ cleaned = <<>>
    /\ merged = EmptyMap
    /\ applied = {}

\* The batch is the list run_postprocessing reads from the raw output file.
MergeInit ==
    /\ batch \in SeqsUpTo(SampleResults, MaxBatch)
    /\ cleaned = <<>>
    /\ merged = EmptyMap
    /\ applied = {}
    /\ PipeIdle
    /\ BridgeIdle
    /\ EntryIdle
    /\ RunsIdle

\* processed_results = [postprocess_extracted_data(r) for r in results]
ApplyPostprocess ==
    /\ "postprocess" \notin applied
    /\ cleaned' = [i \in 1..Len(batch) |-> postprocess_extracted_data(batch[i])]
    /\ applied' = applied \cup {"postprocess"}
    /\ UNCHANGED <<batch, merged>>
    /\ UNCHANGED pipeVars
    /\ UNCHANGED bridgeVars
    /\ UNCHANGED <<entryVars, runsVars>>

\* merged_result = merge_documents(results)
ApplyMerge ==
    /\ "merge" \notin applied
    /\ merged' = merge_documents(batch)
    /\ applied' = applied \cup {"merge"}
    /\ UNCHANGED <<batch, cleaned>>
    /\ UNCHANGED pipeVars
    /\ UNCHANGED bridgeVars
    /\ UNCHANGED <<entryVars, runsVars>>

MergeNext == ApplyPostprocess \/ ApplyMerge

SpecMerge == MergeInit /\ [][MergeNext]_vars

\* run_extraction_pipeline is entered with an input path and an output path
\* that holds nothing or an earlier run's file.
Init ==
    /\ MergeIdle
    /\ BridgeIdle
    /\ EntryIdle
    /\ RunsIdle
    /\ input_path \in Inputs
    /\ output_file \in {NoValue, StaleFile}
    /\ documents = <<>>
    /\ results = <<>>
    /\ awaiting = FALSE
    /\ llm = <<>>
    /\ caught = "none"
    /\ returned = NoValue
    /\ pc = "start"
    /\ started = <<>>

\* A mutant of LoadEscapes: the loaders have no except clause, so the
\* exception of an unreadable file leaves them.
LoadEscapesWhenUnreadable(f) == ~ f.readable
\* Whether an exception raised while loading file f leaves its loader: never,
\* each loader ends with "except Exception: return []" (lines 35-36, 42-43,
\* 49-50).
LoadEscapes(f) == FALSE

\* Lines 111-112: documents = processor.load_documents().
\* The call is outside the try block: an exception that left a loader would
\* leave run_extraction_pipeline.
LoadDocuments ==
    /\ pc = "start"
    /\ \E listing \in Listings(input_path.files) :
          IF \E f \in input_path.files : LoadEscapes(f)
          THEN /\ documents' = <<>>
               /\ caught' = "load"
               /\ returned' = RaisedOut
               /\ pc' = "done"
          ELSE /\ \E caseSensitive \in BOOLEAN :
                    documents' = load_documents(input_path.isDir, listing,
                                                caseSensitive)
               /\ pc' = "loaded"
               /\ UNCHANGED <<caught, returned>>
    /\ UNCHANGED <<input_path, output_file, results, awaiting, llm, started>>
    /\ UNCHANGED mergeVars
    /\ UNCHANGED bridgeVars
    /\ UNCHANGED <<entryVars, runsVars>>

\* Lines 114-117: nothing loaded, the empty value is written and {} returned.
\* The write is outside the try: when it raises, the exception leaves the
\* function.
WriteEmpty ==
    /\ pc = "loaded"
    /\ documents = <<>>
    /\ \E ok \in BOOLEAN :
          IF ok
          THEN /\ output_file' = IF input_path.isDir THEN ListValue(<<>>)
                                 ELSE DictValue(EmptyMap)
               /\ returned' = DictValue(EmptyMap)
          ELSE /\ output_file' \in {output_file, PartialText}
               /\ returned' = RaisedOut
    /\ pc' = "done"
    /\ UNCHANGED <<input_path, documents, results, awaiting, llm, caught, started>>
    /\ UNCHANGED mergeVars
    /\ UNCHANGED bridgeVars
    /\ UNCHANGED <<entryVars, runsVars>>

\* How many documents the try block extracts: documents[0] alone for a file
\* input, every document for a directory.
ToExtract == IF input_path.isDir THEN Len(documents) ELSE 1

\* A mutant of NextCallMayStart: the calls are started without awaiting the
\* one before (as asyncio.gather over the documents would).
NextCallMayStartEarly == Len(started) < ToExtract
\* Lines 130-133: the loop body calls extract_from_document for the next
\* document only after the await of the call before it has returned.
NextCallMayStart == ~ awaiting /\ Len(results) < ToExtract

\* Lines 121 and 131: extract_from_document is called for the next document
\* and the coroutine is awaited.
StartExtraction ==
    /\ pc = "loaded"
    /\ documents # <<>>
    /\ NextCallMayStart
    /\ awaiting' = TRUE
    /\ started' = Append(started, Len(results) + 1)
    /\ UNCHANGED <<input_path, output_file, documents, results, llm, caught, returned, pc>>
    /\ UNCHANGED mergeVars
    /\ UNCHANGED bridgeVars
    /\ UNCHANGED <<entryVars, runsVars>>

\* A mutant of AppendResult: results.insert(0, result).
PrependResult(rs, r) == <<r>> \o rs
\* Line 134: results.append(result); for a file input, line 123 binds the one
\* result.
AppendResult(rs, r) == Append(rs, r)

\* Lines 123 and 133-134: the awaited call ends and its result is appended
\* (or, for a file input, is the result). An exception out of it reaches the
\* except clause of lines 139-143.
FinishExtraction ==
    /\ pc = "loaded"
    /\ awaiting
    /\ \E outcome \in LlmOutcomes :
          LET r == extract_from_document(documents[Len(results) + 1], outcome)
          IN /\ llm' = Append(llm, outcome)
             /\ IF r.raised
                THEN /\ caught' = "extract"
                     /\ returned' = DictValue("error" :> StrV(LlmErrorText))
                     /\ pc' = "done"
                     /\ UNCHANGED results
                ELSE /\ results' = AppendResult(results, r.value)
                     /\ UNCHANGED <<caught, returned, pc>>
    /\ awaiting' = FALSE
    /\ UNCHANGED <<input_path, output_file, documents, started>>
    /\ UNCHANGED mergeVars
    /\ UNCHANGED bridgeVars
    /\ UNCHANGED <<entryVars, runsVars>>

\* The value the try block returns: the result for a file input, the list of
\* results for a directory.
Outcome == IF input_path.isDir THEN ListValue(results) ELSE DictValue(results[1])

\* A mutant of Dumped: the list of results is dumped for a file input too.
DumpedAsList == ListValue(results)
\* What json.dump puts in the output file: result on line 126, results on
\* line 137.
Dumped == IF input_path.isDir THEN ListValue(results) ELSE DictValue(results[1])

\* Lines 125-127 and 136-138: the output file is written and the value
\* returned.
WriteOutput ==
    /\ pc = "loaded"
    /\ documents # <<>>
    /\ ~ awaiting
    /\ Len(results) = ToExtract
    /\ output_file' = Dumped
    /\ returned' = Outcome
    /\ pc' = "done"
    /\ UNCHANGED <<input_path, documents, results, awaiting, llm, caught, started>>
    /\ UNCHANGED mergeVars
    /\ UNCHANGED bridgeVars
    /\ UNCHANGED <<entryVars, runsVars>>

\* Lines 125-126, 136-137 and 139-143: open() or json.dump() raises; the
\* except clause returns {"error": str(e)}. The file is as it was when open()
\* failed, and cut short when the dump did.
WriteOutputFails ==
    /\ pc = "loaded"
    /\ documents # <<>>
    /\ ~ awaiting
    /\ Len(results) = ToExtract
    /\ output_file' \in {output_file, PartialText}
    /\ caught' = "write"
    /\ returned' = DictValue("error" :> StrV(WriteErrorText))
    /\ pc' = "done"
    /\ UNCHANGED <<input_path, documents, results, awaiting, llm, started>>
    /\ UNCHANGED mergeVars
    /\ UNCHANGED bridgeVars
    /\ UNCHANGED <<entryVars, runsVars>>

Next ==
    \/ LoadDocuments
    \/ WriteEmpty
    \/ StartExtraction
    \/ FinishExtraction
    \/ WriteOutput
    \/ WriteOutputFails

Spec == Init /\ [][Next]_vars

\* ------------------------------------------------ the merge engine's claims
MergeApplied == "merge" \in applied
PostprocessApplied == "postprocess" \in applied

\* C1: merge of a single result is that result unchanged: every key kept
\* (source, file_name, page and metadata too), nothing deduplicated or added.
C1_MergeIdentity ==
    (MergeApplied /\ Len(batch) = 1) => merged = batch[1]

\* A single result that carries source, file_name, page and metadata and whose
\* skills list holds a duplicate was merged, and came back as it was.
C1_Witness ==
    /\ MergeApplied
    /\ Len(batch) = 1
    /\ {"source", "file_name", "page", "metadata"} \subseteq DOMAIN batch[1]
    /\ batch[1]["skills"] = ListV(<<StrV(<<"SQL">>), StrV(<<"SQL">>)>>)
    /\ merged = batch[1]

\* The values of one list field over the batch, in document order.
RECURSIVE ConcatField(_, _)
ConcatField(rs, f) ==
    IF rs = <<>> THEN <<>>
    ELSE Get(Head(rs), f, ListV(<<>>)).l \o ConcatField(Tail(rs), f)
\* The positions whose element equals no earlier element.
FirstOccurrences(c) ==
    {i \in 1..Len(c) : \A j \in 1..(i - 1) : ~ PyEq(c[j], c[i])}
\* The k-th smallest member of a set of positions.
NthOf(S, k) == CHOOSE i \in S : Cardinality({j \in S : j < i}) = k - 1

\* C2: for a batch of two or more, each list field of the merged result is
\* the concatenation of the documents' values in document order with
\* duplicates removed by structural equality: exactly the first occurrences,
\* in their order; no two equal elements remain; every input element is
\* represented.
C2_ListDedup ==
    (MergeApplied /\ Len(batch) >= 2) =>
        \A f \in Range(list_fields) :
            /\ f \in DOMAIN merged
            /\ LET c == ConcatField(batch, f)
                   out == merged[f].l
                   first == FirstOccurrences(c)
               IN /\ Len(out) = Cardinality(first)
                  /\ \A k \in 1..Len(out) : out[k] = c[NthOf(first, k)]
                  /\ \A i, j \in 1..Len(out) : i < j => ~ PyEq(out[i], out[j])
                  /\ \A i \in 1..Len(c) : \E k \in 1..Len(out) : PyEq(c[i], out[k])

\* Two documents whose skills overlap and whose profiles hold the same mapping
\* with its keys in a different order were merged.
C2_Witness ==
    /\ MergeApplied
    /\ Len(batch) = 2
    /\ Get(batch[1], "profiles", Null) = ListV(<<ProfileA>>)
    /\ Get(batch[2], "profiles", Null) = ListV(<<ProfileASwapped, ProfileB>>)
    /\ merged["profiles"] = ListV(<<ProfileA, ProfileB>>)
    /\ merged["skills"] =
           ListV(<<StrV(<<"Python">>), StrV(<<"SQL">>), StrV(<<"Go">>)>>)

\* A value that is not null, not "", not [] and not {}.
Qualifies(v) ==
    /\ v.t # "null"
    /\ ~ (v.t = "str" /\ v.s = <<>>)
    /\ ~ (v.t = "list" /\ v.l = <<>>)
    /\ ~ (v.t = "dict" /\ v.d = <<>>)
QualifyingDocs(rs, f) ==
    {i \in 1..Len(rs) : f \in DOMAIN rs[i] /\ Qualifies(rs[i][f])}
MinOf(S) == CHOOSE i \in S : \A j \in S : i <= j

\* C3: for a batch of two or more, each scalar field of the merged result is
\* the value of the first document whose value qualifies, and is absent when
\* no document qualifies; with exactly one qualifying document the merged
\* value is that document's, whatever its position.
C3_ScalarFirstNonEmpty ==
    (MergeApplied /\ Len(batch) >= 2) =>
        \A f \in Range(scalar_fields) :
            LET q == QualifyingDocs(batch, f)
            IN /\ (q = {}) => f \notin DOMAIN merged
               /\ (q # {}) => (f \in DOMAIN merged /\ merged[f] = batch[MinOf(q)][f])
               /\ \A i \in q : (q = {i}) => (f \in DOMAIN merged /\ merged[f] = batch[i][f])

\* The name is null in the first document and "X" in the second; the merged
\* name is "X" and a years_experience of 0 is kept.
C3_Witness ==
    /\ MergeApplied
    /\ Len(batch) = 2
    /\ Get(batch[1], "name", Absent) = Null
    /\ Get(batch[2], "name", Absent) = StrV(<<"X">>)
    /\ Get(batch[2], "years_experience", Absent) = IntV(0)
    /\ Get(merged, "name", Absent) = StrV(<<"X">>)
    /\ Get(merged, "years_experience", Absent) = IntV(0)

StrippedKeys == {"source", "file_name", "page"}

\* C4: for a batch of two or more the merged result has none of the keys
\* source, file_name, page.
C4_StrippedKeys ==
    (MergeApplied /\ Len(batch) >= 2) => (DOMAIN merged) \cap StrippedKeys = {}

\* Every result of a batch of two carried all three keys.
C4_Witness ==
    /\ MergeApplied
    /\ Len(batch) >= 2
    /\ \A i \in 1..Len(batch) : StrippedKeys \subseteq DOMAIN batch[i]
    /\ (DOMAIN merged) \cap StrippedKeys = {}

\* C5: postprocess keeps exactly the top-level keys whose value is not null,
\* each with its value; keys holding [] or {} are kept.
C5_PostprocessNullStripping ==
    PostprocessApplied =>
        \A i \in 1..Len(batch) :
            /\ DOMAIN cleaned[i] = {k \in DOMAIN batch[i] : batch[i][k].t # "null"}
            /\ \A k \in DOMAIN cleaned[i] : cleaned[i][k] = batch[i][k]

\* A result with a null, an empty list and an empty mapping was cleaned: the
\* null key is gone and the two empty values are kept.
C5_Witness ==
    /\ PostprocessApplied
    /\ \E i \in 1..Len(batch) :
        /\ batch[i] = SparseResult
        /\ DOMAIN cleaned[i] = {"skills", "location", "summary"}
        /\ cleaned[i]["skills"] = ListV(<<>>)
        /\ cleaned[i]["location"] = DictV(<<>>)

\* ------------------------------------------------ the orchestrator's claims
Done == pc = "done"
DocSource(document) == document.metadata["source"]
ErrorShape(m) == DOMAIN m = {"error", "source_file"}
\* The fields the schema requires are there and there is no error key.
SuccessShape(m) == {"summary", "name"} \subseteq DOMAIN m /\ "error" \notin DOMAIN m
\* The run extracted its documents and its write did not raise.
OutputProduced == Done /\ documents # <<>> /\ caught # "write"

\* C6: extract_from_document never raises; when the LLM call fails, it
\* returns a mapping with exactly the keys error and source_file, the latter
\* being the document's source.
C6_ExtractNeverRaises ==
    /\ caught # "extract"
    /\ Len(llm) = Len(results)
    /\ \A i \in 1..Len(results) :
          (llm[i] = "raise") =>
              /\ ErrorShape(results[i])
              /\ results[i]["source_file"] = DocSource(documents[i])
              /\ results[i]["error"].t = "str"
              /\ results[i]["error"].s # <<>>

\* The LLM call for c.txt failed and the run went on to its end with the
\* error mapping as that document's result.
C6_Witness ==
    /\ Done
    /\ caught = "none"
    /\ \E i \in 1..Len(results) :
          /\ llm[i] = "raise"
          /\ ErrorShape(results[i])
          /\ results[i]["source_file"] = StrV(<<"in", "/", "c", ".txt">>)

\* C7: in a directory run over N documents that produced its output, the
\* output is an N-element sequence; the element of a document whose
\* extraction failed has exactly the keys error and source_file, and every
\* other element is the result of its own document, with no error key.
C7_PartialFailureContainment ==
    (OutputProduced /\ input_path.isDir) =>
        /\ returned.kind = "list"
        /\ Len(returned.items) = Len(documents)
        /\ Len(llm) = Len(documents)
        /\ \A i \in 1..Len(documents) :
              IF llm[i] = "raise"
              THEN /\ ErrorShape(returned.items[i])
                   /\ returned.items[i]["source_file"] = DocSource(documents[i])
              ELSE /\ "error" \notin DOMAIN returned.items[i]
                   /\ returned.items[i] =
                          extract_from_document(documents[i], llm[i]).value

\* Three documents, the second of which failed: three elements, an error
\* mapping between two normal results.
C7_Witness ==
    /\ Done
    /\ input_path.isDir
    /\ Len(documents) = 3
    /\ llm = <<"ok", "raise", "ok">>
    /\ returned.kind = "list"
    /\ Len(returned.items) = 3
    /\ ErrorShape(returned.items[2])
    /\ SuccessShape(returned.items[1])
    /\ SuccessShape(returned.items[3])

\* The source a result names: source of a success, source_file of an error.
NamedSource(m) ==
    IF "source" \in DOMAIN m THEN m["source"]
    ELSE IF "source_file" \in DOMAIN m THEN m["source_file"]
    ELSE Null

\* C8: in a directory run that produced its output, the i-th element of the
\* output is the result of the i-th loaded document, whichever documents
\* succeed or fail.
C8_OutputOrder ==
    (OutputProduced /\ input_path.isDir) =>
        /\ returned.kind = "list"
        /\ Len(returned.items) = Len(documents)
        /\ \A i \in 1..Len(documents) :
              /\ (llm[i] # "none") =>
                     NamedSource(returned.items[i]) = DocSource(documents[i])
              /\ (llm[i] = "ok") =>
                     returned.items[i]["summary"] =
                         StrV(<<"summary of ">> \o documents[i].page_content)
              /\ (llm[i] = "none") => returned.items[i] = EmptyMap

\* b.pdf was discovered before a.pdf and c.txt last; the first failed, the
\* others succeeded, and the output names them in that order.
C8_Witness ==
    /\ Done
    /\ input_path.isDir
    /\ Len(documents) = 3
    /\ DocSource(documents[1]) = StrV(PathOf(FileB))
    /\ DocSource(documents[2]) = StrV(PathOf(FileA))
    /\ llm = <<"raise", "ok", "ok">>
    /\ returned.kind = "list"
    /\ NamedSource(returned.items[1]) = StrV(PathOf(FileB))
    /\ NamedSource(returned.items[2]) = StrV(PathOf(FileA))
    /\ NamedSource(returned.items[3]) = StrV(PathOf(FileC))

\* The entries of the final output.
OutputEntries ==
    IF returned.kind = "list" THEN returned.items
    ELSE IF returned.kind = "dict" THEN <<returned.map>>
    ELSE <<>>

\* C9: the final output of a run that extracted its documents has exactly
\* one entry per loaded document, each of success shape or of error shape.
C9_OneEntryPerDocument ==
    OutputProduced =>
        /\ Len(OutputEntries) = Len(documents)
        /\ \A i \in 1..Len(OutputEntries) :
              SuccessShape(OutputEntries[i]) \/ ErrorShape(OutputEntries[i])

\* The file the run is to leave behind: [] or {} when nothing was loaded,
\* else the result or the list of results.
ExpectedFile ==
    IF documents = <<>>
    THEN (IF input_path.isDir THEN ListValue(<<>>) ELSE DictValue(EmptyMap))
    ELSE (IF input_path.isDir THEN ListValue(results) ELSE DictValue(results[1]))
\* The run returned a value (no exception left the function).
RunReturned == Done /\ returned.kind # "raised"

\* C10 as stated: whenever the run returns, the output file holds that run's
\* results.
C10_WrittenBeforeAnyReturn ==
    RunReturned => output_file = ExpectedFile

\* C10 as amended: whenever the run returns other than through its except
\* clause, the output file holds that run's results, also when documents
\* failed; a write that raises inside the try block makes the run return
\* {error: message} alone.
C10_WrittenBeforeNormalReturn ==
    /\ (RunReturned /\ caught = "none") => output_file = ExpectedFile
    /\ (RunReturned /\ caught = "write") =>
           returned = DictValue("error" :> StrV(WriteErrorText))

\* A directory run in which a document failed returned its list, and the
\* file holds that list.
C10_Witness ==
    /\ RunReturned
    /\ caught = "none"
    /\ input_path.isDir
    /\ \E i \in 1..Len(llm) : llm[i] = "raise"
    /\ \E i \in 1..Len(llm) : llm[i] = "ok"
    /\ returned = ListValue(results)
    /\ output_file = returned

\* C11: when the loader yields no documents, a directory run writes [] and
\* returns an empty sequence, and a file run writes {} and returns an empty
\* mapping.
C11_EmptyBatch ==
    (RunReturned /\ documents = <<>>) =>
        IF input_path.isDir
        THEN output_file = ListValue(<<>>) /\ returned = ListValue(<<>>)
        ELSE output_file = DictValue(EmptyMap) /\ returned = DictValue(EmptyMap)

\* C15: within one run the LLM calls are started one at a time in the order
\* of the loaded documents: the k-th call is for the k-th document, it is
\* started only when every call before it has ended, and at most one call is
\* in flight.
C15_OneCallAtATime ==
    /\ \A k \in 1..Len(started) : started[k] = k
    /\ Len(started) - Len(llm) \in {0, 1}
    /\ awaiting <=> (Len(started) = Len(llm) + 1)
    /\ Len(started) <= Len(documents)

\* The call for the third document is in flight after the calls for the
\* first two have ended, one of them with an error.
C15_Witness ==
    /\ input_path.isDir
    /\ Len(documents) = 3
    /\ started = <<1, 2, 3>>
    /\ llm = <<"raise", "ok">>
    /\ awaiting

SchemaFields == DOMAIN SchemaPayload(Document(<<>>, EmptyMap))
ProvenanceKeys == {"source", "file_name", "page", "metadata"}

\* C16: a result of extract_from_document is the error variant or a
\* successful payload, never both: with the error key it has exactly the keys
\* error and source_file (no schema field, no metadata) and comes from a failed
\* call; a successful call's result has the schema's fields and no error key.
C16_ErrorOrPayload ==
    \A i \in 1..Len(results) :
        /\ ("error" \in DOMAIN results[i]) =>
               /\ DOMAIN results[i] = {"error", "source_file"}
               /\ (DOMAIN results[i]) \cap (SchemaFields \cup ProvenanceKeys) = {}
               /\ llm[i] = "raise"
        /\ (llm[i] = "ok") =>
               /\ "error" \notin DOMAIN results[i]
               /\ "source_file" \notin DOMAIN results[i]
               /\ SchemaFields \subseteq DOMAIN results[i]
        /\ (llm[i] = "raise") => "error" \in DOMAIN results[i]

\* A run ended with an error result and a successful result side by side.
C16_Witness ==
    /\ Done
    /\ \E i, j \in 1..Len(results) :
          /\ llm[i] = "raise"
          /\ DOMAIN results[i] = {"error", "source_file"}
          /\ llm[j] = "ok"
          /\ "error" \notin DOMAIN results[j]
          /\ "summary" \in DOMAIN results[j]

\* The keys of a dict value.
DictKeys(v) == {v.d[i][1] : i \in 1..Len(v.d)}

\* C17: a successful result carries a metadata sub-mapping whose keys are
\* those of {title, total_pages, page} present in the document's metadata,
\* plus date_of_extraction.
C17_MetadataAttached ==
    \A i \in 1..Len(results) :
        (llm[i] = "ok") =>
            /\ "metadata" \in DOMAIN results[i]
            /\ results[i]["metadata"].t = "dict"
            /\ DictKeys(results[i]["metadata"]) =
                   ({"title", "total_pages", "page"} \cap DOMAIN documents[i].metadata)
                   \cup {"date_of_extraction"}

\* ------------------------------------------------------------ loading
Loaded == pc \notin {"idle", "start"}
\* How many of the loaded documents come from file f.
DocumentsOf(f) ==
    Cardinality({i \in 1..Len(documents) :
                    DocSource(documents[i]) = StrV(PathOf(f))})
\* A file the scan of a directory hands to a loader on every platform.
HandedToLoader(f) == f.ext \in {".pdf", ".docx", ".doc", ".txt"}

SupportedFile(f) == LowerExt(f.ext) \in {".pdf", ".docx", ".doc", ".txt"}
\* C19: for a directory input every readable file with a supported extension
\* yields exactly one document, and a file with another extension yields
\* none.
C19_EverySupportedFileLoadedOnce ==
    (Loaded /\ input_path.isDir) =>
        \A f \in input_path.files :
            /\ (SupportedFile(f) /\ f.readable /\ f.pages # <<>>)
                  => DocumentsOf(f) = 1
            /\ ~ SupportedFile(f) => DocumentsOf(f) = 0

\* The text of a PDF as the claim words it: the pages in order, a newline
\* between two of them.
PdfText(f) ==
    [i \in 1..(2 * Len(f.pages) - 1) |->
        IF i % 2 = 1 THEN f.pages[(i + 1) \div 2] ELSE "\n"]
\* C20: a PDF with at least one page is loaded as exactly one document whose
\* text is the pages joined by newlines in page order and whose metadata is
\* that of the first page (page number 0) with the file path as source.
C20_PdfOneDocument ==
    (Loaded /\ ~ input_path.isDir) =>
        \A f \in input_path.files :
            (LowerExt(f.ext) = ".pdf" /\ f.readable /\ f.pages # <<>>) =>
                /\ Len(documents) = 1
                /\ documents[1].page_content = PdfText(f)
                /\ DOMAIN documents[1].metadata = {"source", "page"}
                /\ documents[1].metadata["page"] = IntV(0)
                /\ documents[1].metadata["source"] = StrV(PathOf(f))
\* A PDF of two pages has been loaded.
C20_Witness ==
    /\ Loaded /\ ~ input_path.isDir
    /\ input_path.files = {FileA}
    /\ Len(FileA.pages) = 2
    /\ Len(documents) = 1
    /\ Len(documents[1].page_content) = 3

\* ------------------------------------------------ the sync/async bridge
\* The two copies of the bridge: run_sync_or_async of run_pipeline.py and
\* the branch of process_uploaded_file in app/functions.py.
Pipeline == "run_sync_or_async"
App == "process_uploaded_file"

\* How the operation ends once it runs: with a result, with an exception,
\* with a RuntimeError, or never.
OpEndings == {"returns", "raises", "raisesRuntimeError", "never"}
\* The event loop of the calling thread at the call: none set, one that is
\* set and not running, or one that is running (the call comes from a
\* callback of that loop).
HostLoops == {"unset", "idle", "running"}
\* run_sync_or_async receives a value its call site has already computed
\* when that is not a coroutine; process_uploaded_file calls the function
\* itself when it is not a coroutine function.
Calls ==
    {c \in [bridge : {Pipeline, App}, isCoroutine : BOOLEAN,
            ends : OpEndings, host : HostLoops] :
        (c.bridge = Pipeline /\ ~ c.isCoroutine) => c.ends = "returns"}

BridgeInit ==
    /\ MergeIdle
    /\ PipeIdle
    /\ EntryIdle
    /\ RunsIdle
    /\ call \in Calls
    /\ loop = call.host
    /\ loopMadeBy = "host"
    /\ bpc = "call"
    /\ worker = "none"
    /\ workerLoop = "none"
    /\ ownLoop = "none"
    /\ opState = "created"
    /\ handed = <<>>
    /\ future = "none"
    /\ got = "none"
    /\ elapsed = FALSE
    /\ bresult = "none"

Ended == {"returned", "raised", "raisedRuntimeError"}
\* The state of an operation that has ended the way ends says.
EndState(ends) ==
    CASE ends = "returns" -> "returned"
      [] ends = "raises" -> "raised"
      [] OTHER -> "raisedRuntimeError"
\* What the one who ran the operation gets from it: its value or the
\* exception it raised.
Yield(state) ==
    CASE state = "returned" -> "value"
      [] state = "raised" -> "exception"
      [] OTHER -> "RuntimeError"

\* A mutant of is_running: the branch for a running loop is never taken.
is_running_never(l) == FALSE
\* loop.is_running()
is_running(l) == l = "running"

\* A mutant of AfterAsyncioRun: the loop is left open.
AfterAsyncioRunOpen == "idle"
\* The loop asyncio.run made, once asyncio.run is left: closed.
AfterAsyncioRun == "closed"
\* The loop run_until_complete ran, once the call is left: stopped and
\* still open.
AfterRunUntilComplete == "idle"

\* run_sync_or_async line 89: the value that is no coroutine is returned.
ReturnDirectly ==
    /\ bpc = "call" /\ ~ call.isCoroutine /\ call.bridge = Pipeline
    /\ bresult' = "value"
    /\ bpc' = "returned"
    /\ UNCHANGED <<call, loop, loopMadeBy, worker, workerLoop, ownLoop, opState,
                   handed, future, got, elapsed>>
    /\ UNCHANGED <<mergeVars, pipeVars>>
    /\ UNCHANGED <<entryVars, runsVars>>

\* functions.py lines 136-141: extract_from_file is called on the calling
\* thread.
CallDirectly ==
    /\ bpc = "call" /\ ~ call.isCoroutine /\ call.bridge = App
    /\ opState' = "running"
    /\ handed' = Append(handed, "direct")
    /\ bpc' = "direct"
    /\ UNCHANGED <<call, loop, loopMadeBy, worker, workerLoop, ownLoop, future,
                   got, elapsed, bresult>>
    /\ UNCHANGED <<mergeVars, pipeVars>>
    /\ UNCHANGED <<entryVars, runsVars>>

DirectCallEnds ==
    /\ bpc = "direct" /\ opState \in Ended
    /\ bresult' = Yield(opState)
    /\ bpc' = "returned"
    /\ UNCHANGED <<call, loop, loopMadeBy, worker, workerLoop, ownLoop, opState,
                   handed, future, got, elapsed>>
    /\ UNCHANGED <<mergeVars, pipeVars>>
    /\ UNCHANGED <<entryVars, runsVars>>

\* loop = asyncio.get_event_loop(). With no loop set for the thread the
\* call makes one (main thread of the older interpreters) or raises
\* RuntimeError (any other thread, the newer interpreters);
\* process_uploaded_file then makes and sets a loop itself (lines 122-124),
\* run_sync_or_async goes to its except clause.
GetEventLoop ==
    /\ bpc = "call" /\ call.isCoroutine
    /\ \/ /\ loop # "unset"
          /\ bpc' = "have_loop"
          /\ UNCHANGED <<loop, loopMadeBy>>
       \/ /\ loop = "unset"
          /\ loop' = "idle"
          /\ loopMadeBy' = "policy"
          /\ bpc' = "have_loop"
       \/ /\ loop = "unset"
          /\ IF call.bridge = App
             THEN /\ loop' = "idle"
                  /\ loopMadeBy' = "bridge"
                  /\ bpc' = "have_loop"
             ELSE /\ bpc' = "except_RuntimeError"
                  /\ UNCHANGED <<loop, loopMadeBy>>
    /\ UNCHANGED <<call, worker, workerLoop, ownLoop, opState, handed, future,
                   got, elapsed, bresult>>
    /\ UNCHANGED <<mergeVars, pipeVars>>
    /\ UNCHANGED <<entryVars, runsVars>>

\* The loop is running: executor.submit(...) starts a worker thread, and
\* the calling thread goes on to future.result.
Submit ==
    /\ bpc = "have_loop" /\ is_running(loop)
    /\ worker' = "queued"
    /\ future' = "pending"
    /\ bpc' = "waiting"
    /\ UNCHANGED <<call, loop, loopMadeBy, workerLoop, ownLoop, opState, handed,
                   got, elapsed, bresult>>
    /\ UNCHANGED <<mergeVars, pipeVars>>
    /\ UNCHANGED <<entryVars, runsVars>>

\* The worker thread calls asyncio.run(coro): a new loop, on which the
\* operation starts.
WorkerRuns ==
    /\ worker = "queued"
    /\ worker' = "running"
    /\ workerLoop' = "running"
    /\ opState' = "running"
    /\ handed' = Append(handed, "worker")
    /\ UNCHANGED <<call, loop, loopMadeBy, bpc, ownLoop, future, got, elapsed,
                   bresult>>
    /\ UNCHANGED <<mergeVars, pipeVars>>
    /\ UNCHANGED <<entryVars, runsVars>>

\* The operation comes to its end, wherever it runs.
OperationEnds ==
    /\ opState = "running" /\ call.ends # "never"
    /\ opState' = EndState(call.ends)
    /\ UNCHANGED <<call, loop, loopMadeBy, bpc, worker, workerLoop, ownLoop,
                   handed, future, got, elapsed, bresult>>
    /\ UNCHANGED <<mergeVars, pipeVars>>
    /\ UNCHANGED <<entryVars, runsVars>>

\* asyncio.run closes its loop and the worker sets the Future.
WorkerFinishes ==
    /\ worker = "running" /\ opState \in Ended
    /\ workerLoop' = AfterAsyncioRun
    /\ worker' = "done"
    /\ future' = Yield(opState)
    /\ UNCHANGED <<call, loop, loopMadeBy, bpc, ownLoop, opState, handed, got,
                   elapsed, bresult>>
    /\ UNCHANGED <<mergeVars, pipeVars>>
    /\ UNCHANGED <<entryVars, runsVars>>

\* future.result() is left with the value or the exception of the Future.
FutureResult ==
    /\ bpc = "waiting" /\ future \notin {"none", "pending"}
    /\ got' = future
    /\ bpc' = "exit_with"
    /\ UNCHANGED <<call, loop, loopMadeBy, worker, workerLoop, ownLoop, opState,
                   handed, future, elapsed, bresult>>
    /\ UNCHANGED <<mergeVars, pipeVars>>
    /\ UNCHANGED <<entryVars, runsVars>>

\* 120 seconds pass while the Future is pending. future.result(timeout=120)
\* of process_uploaded_file raises TimeoutError; future.result() of
\* run_sync_or_async has no timeout and goes on waiting.
BoundElapses ==
    /\ bpc = "waiting" /\ future = "pending" /\ ~ elapsed
    /\ elapsed' = TRUE
    /\ IF call.bridge = App
       THEN got' = "TimeoutError" /\ bpc' = "exit_with"
       ELSE UNCHANGED <<got, bpc>>
    /\ UNCHANGED <<call, loop, loopMadeBy, worker, workerLoop, ownLoop, opState,
                   handed, future, bresult>>
    /\ UNCHANGED <<mergeVars, pipeVars>>
    /\ UNCHANGED <<entryVars, runsVars>>

\* The with block is left: ThreadPoolExecutor.__exit__ is
\* shutdown(wait=True), which joins the worker, and then the value is
\* returned or the exception goes on, a RuntimeError into the except clause
\* of run_sync_or_async.
ExitWith ==
    /\ bpc = "exit_with" /\ worker = "done"
    /\ IF got = "RuntimeError" /\ call.bridge = Pipeline
       THEN bpc' = "except_RuntimeError" /\ UNCHANGED bresult
       ELSE bresult' = got /\ bpc' = "returned"
    /\ UNCHANGED <<call, loop, loopMadeBy, worker, workerLoop, ownLoop, opState,
                   handed, future, got, elapsed>>
    /\ UNCHANGED <<mergeVars, pipeVars>>
    /\ UNCHANGED <<entryVars, runsVars>>

\* The loop is not running: loop.run_until_complete(coro) starts the
\* operation on the calling thread's loop.
RunUntilComplete ==
    /\ bpc = "have_loop" /\ ~ is_running(loop)
    /\ loop' = "running"
    /\ opState' = "running"
    /\ handed' = Append(handed, "caller")
    /\ bpc' = "run_until_complete"
    /\ UNCHANGED <<call, loopMadeBy, worker, workerLoop, ownLoop, future, got,
                   elapsed, bresult>>
    /\ UNCHANGED <<mergeVars, pipeVars>>
    /\ UNCHANGED <<entryVars, runsVars>>

\* run_until_complete is left with the operation's value or exception; the
\* loop is stopped, and nothing closes it.
LoopCompletes ==
    /\ bpc = "run_until_complete" /\ opState \in Ended
    /\ loop' = AfterRunUntilComplete
    /\ IF opState = "raisedRuntimeError" /\ call.bridge = Pipeline
       THEN bpc' = "except_RuntimeError" /\ UNCHANGED bresult
       ELSE bresult' = Yield(opState) /\ bpc' = "returned"
    /\ UNCHANGED <<call, loopMadeBy, worker, workerLoop, ownLoop, opState,
                   handed, future, got, elapsed>>
    /\ UNCHANGED <<mergeVars, pipeVars>>
    /\ UNCHANGED <<entryVars, runsVars>>

\* run_sync_or_async lines 86-88: except RuntimeError: return
\* asyncio.run(coro). asyncio.run raises RuntimeError at once on a thread
\* whose loop is running; it makes a loop and starts the coroutine when the
\* coroutine has not run yet; given a coroutine that has run, it makes a
\* loop, fails with RuntimeError on the coroutine and closes the loop.
ExceptRuntimeError ==
    /\ bpc = "except_RuntimeError"
    /\ IF loop = "running"
       THEN /\ bresult' = "AsyncioRuntimeError"
            /\ bpc' = "returned"
            /\ UNCHANGED <<ownLoop, opState, handed>>
       ELSE IF opState = "created"
       THEN /\ ownLoop' = "running"
            /\ opState' = "running"
            /\ handed' = Append(handed, "own")
            /\ bpc' = "asyncio_run"
            /\ UNCHANGED bresult
       ELSE /\ ownLoop' = AfterAsyncioRun
            /\ handed' = Append(handed, "own")
            /\ bresult' = "AsyncioRuntimeError"
            /\ bpc' = "returned"
            /\ UNCHANGED opState
    /\ UNCHANGED <<call, loop, loopMadeBy, worker, workerLoop, future, got,
                   elapsed>>
    /\ UNCHANGED <<mergeVars, pipeVars>>
    /\ UNCHANGED <<entryVars, runsVars>>

\* asyncio.run on the calling thread is left: its loop is closed, the
\* operation's value is returned or its exception goes to the caller.
AsyncioRunCompletes ==
    /\ bpc = "asyncio_run" /\ opState \in Ended
    /\ ownLoop' = AfterAsyncioRun
    /\ bresult' = Yield(opState)
    /\ bpc' = "returned"
    /\ UNCHANGED <<call, loop, loopMadeBy, worker, workerLoop, opState, handed,
                   future, got, elapsed>>
    /\ UNCHANGED <<mergeVars, pipeVars>>
    /\ UNCHANGED <<entryVars, runsVars>>

\* Every step of the bridge but the passing of time.
BridgeProgress ==
    \/ ReturnDirectly
    \/ CallDirectly
    \/ DirectCallEnds
    \/ GetEventLoop
    \/ Submit
    \/ WorkerRuns
    \/ OperationEnds
    \/ WorkerFinishes
    \/ FutureResult
    \/ ExitWith
    \/ RunUntilComplete
    \/ LoopCompletes
    \/ ExceptRuntimeError
    \/ AsyncioRunCompletes

BridgeNext == BridgeProgress \/ BoundElapses

SpecBridge == BridgeInit /\ [][BridgeNext]_vars

\* The bridge has an asynchronous operation and is called from a thread
\* whose loop is running.
Reentrant == call.isCoroutine /\ call.host = "running"
BridgeReturned == bpc = "returned"

\* C12: in the reentrant case the operation is handed to the worker thread
\* alone and runs on the loop asyncio.run makes there, the caller's loop is
\* left as it was, the calling thread leaves the bridge only after the
\* worker is done, with the operation's result when future.result gave it,
\* and while the operation is one that ends the call always has a step to
\* take.
C12_ReentrantOnWorker ==
    Reentrant =>
        /\ \A i \in 1..Len(handed) : handed[i] = "worker"
        /\ loop = "running" /\ loopMadeBy = "host" /\ ownLoop = "none"
        /\ opState = "running" => (worker = "running" /\ workerLoop = "running")
        /\ BridgeReturned => (worker = "done" /\ workerLoop = "closed")
        /\ (BridgeReturned /\ opState = "returned" /\ got # "TimeoutError")
              => bresult = "value"
        /\ (call.ends # "never" /\ ~ BridgeReturned) => ENABLED BridgeProgress
\* A reentrant call has returned the result of an operation the worker ran.
C12_Witness ==
    /\ Reentrant /\ BridgeReturned
    /\ handed = <<"worker">>
    /\ worker = "done"
    /\ bresult = "value"

\* C13: in the reentrant case, once the bound of the wait has passed with
\* the operation not completed, the call has failed with TimeoutError.
C13_BoundedWait ==
    (Reentrant /\ elapsed) => (BridgeReturned /\ bresult = "TimeoutError")

\* run_sync_or_async has an asynchronous operation and the loop of the
\* calling thread is not running.
NotRunning == call.bridge = Pipeline /\ call.isCoroutine /\ call.host # "running"
\* What the bridge leaves behind when it returns a value that is no
\* coroutine.
NothingCreated ==
    /\ bresult = "value"
    /\ handed = <<>>
    /\ worker = "none" /\ workerLoop = "none" /\ ownLoop = "none"
    /\ loop = call.host /\ loopMadeBy = "host"
C24_ShapeByInputKind ==
    RunReturned =>
        IF input_path.isDir
        THEN returned.kind = "list" /\ output_file.kind = "list"
        ELSE returned.kind = "dict" /\ output_file.kind = "dict"

\* C30: a call of the chain that ends without raising and yields None gives
\* the empty mapping as the document's result, and in a directory run whose
\* output is written the empty mapping stands at the document's place in the
\* list of the output file.
C30_NoneIsEmptyMapping ==
    /\ \A i \in 1..Len(results) : llm[i] = "none" => results[i] = EmptyMap
    /\ (OutputProduced /\ input_path.isDir) =>
          /\ Len(output_file.items) = Len(documents)
          /\ \A i \in 1..Len(documents) :
                llm[i] = "none" => output_file.items[i] = EmptyMap
\* A directory run of two documents, the second of which got None from the
\* chain, has written its output.
C30_Witness ==
    /\ OutputProduced /\ input_path.isDir
    /\ Len(documents) = 2
    /\ llm = <<"ok", "none">>
    /\ output_file.items[2] = EmptyMap
    /\ output_file.items[1] # EmptyMap

\* --------------------------------------------------- keys of the merge
SixListFields ==
    {"professional_experience", "education", "skills", "languages",
     "certifications", "profiles"}
EightScalarFields ==
    {"name", "summary", "email", "phone", "location", "years_experience",
     "current_position", "current_company"}
\* The keys of the results of the batch that are no field of the merge.
OtherKeys ==
    UNION {DOMAIN batch[i] : i \in 1..Len(batch)}
        \ (SixListFields \cup EightScalarFields)
C27_StartedOnceSameException ==
    call.isCoroutine =>
        /\ Len(handed) <= 1
        /\ BridgeReturned =>
              /\ Len(handed) = 1
              /\ opState = "raised" => bresult = "exception"
              /\ opState = "raisedRuntimeError" => bresult = "RuntimeError"

\* -------------------------------------------------------------- extract.py
\* The schema modules a name can stand for: one with both accessors (as all
\* four modules of preprocess/schemas have), none at all, and modules that
\* lack get_schema, get_prompt or both.
SchemaModules ==
    {"cv_schema", "absent", "no_get_schema", "no_get_prompt", "no_accessor"}
ModuleExists(m) == m # "absent"
HasGetSchema(m) == m \in {"cv_schema", "no_get_prompt"}
HasGetPrompt(m) == m \in {"cv_schema", "no_get_schema"}

ImportError(message) ==
    [raised |-> TRUE, type |-> "ImportError", message |-> message, value |-> "none"]
\* load_schema: the class get_schema() returns, or ImportError. The
\* ImportError raised for a missing get_schema is raised inside the try and
\* so is wrapped by the except clause like the one of the import.
load_schema(m) ==
    IF ~ ModuleExists(m)
    THEN ImportError(<<"Could not import schema '", m, "': ", "No module named">>)
    ELSE IF ~ HasGetSchema(m)
    THEN ImportError(<<"Could not import schema '", m, "': ", "Schema module '",
                       "preprocess.schemas.", m,
                       "' does not have a get_schema() function.">>)
    ELSE [raised |-> FALSE, type |-> "none", message |-> <<>>,
          value |-> "DocumentSchema"]

\* A mutant of get_prompt_of: the module is not asked whether it has
\* get_prompt.
get_prompt_unchecked(m) ==
    [raised |-> FALSE, type |-> "none", message |-> <<>>, value |-> "prompt"]
\* Lines 95-100: extraction_prompt = module.get_prompt(), or ImportError.
get_prompt_of(m) ==
    IF HasGetPrompt(m)
    THEN [raised |-> FALSE, type |-> "none", message |-> <<>>, value |-> "prompt"]
    ELSE ImportError(<<"Schema module '", "preprocess.schemas.", m,
                       "' does not have a get_prompt() function.">>)

\* input_path.name
InputName ==
    IF input_path.isDir THEN <<InputDirName>>
    ELSE LET f == CHOOSE f \in input_path.files : TRUE IN <<f.stem, f.ext>>
\* A mutant of FailedToProcess: the except clause returns an empty mapping.
FailedSilently(message) == DictValue(EmptyMap)
\* Lines 110-112: the mapping returned from the except clause.
FailedToProcess(message) ==
    DictValue("error" :> StrV(<<"Failed to process ">> \o InputName \o <<": ">>
                              \o message))

\* A mutant of AfterUnlink: the file is left where it is.
AfterUnlinkKept(file) == file
\* Lines 88-89: output_file.unlink() when the file exists.
AfterUnlink(file) == NoValue

\* What the command line and the environment give: whether the input path
\* exists, the schema named, whether the credential is set, whether the
\* output directory can be made and a file in it removed, and whether an
\* earlier run left a file at the output path. main leaves at once when the
\* input path does not exist.
Requests ==
    {r \in [exists : BOOLEAN, schema : SchemaModules, has_key : BOOLEAN,
            outputs : {"ok", "mkdir_fails", "unlink_fails"}, stale : BOOLEAN] :
        ~ r.exists => (r.schema = "cv_schema" /\ ~ r.has_key /\ r.outputs = "ok")}
\* The inputs of the runs started from main.
EntryInputs == {i \in Inputs : i.files \subseteq {FileA, FileC, FileD}}

EntryInit ==
    /\ MergeIdle
    /\ BridgeIdle
    /\ RunsIdle
    /\ request \in Requests
    /\ epc = "main"
    /\ schema_class = NotLoaded
    /\ eresult = NoValue
    /\ eraised = "none"
    /\ exit_code = NotExited
    /\ input_path \in EntryInputs
    /\ output_file = (IF request.stale THEN StaleFile ELSE NoValue)
    /\ documents = <<>>
    /\ results = <<>>
    /\ awaiting = FALSE
    /\ llm = <<>>
    /\ caught = "none"
    /\ returned = NoValue
    /\ pc = "idle"
    /\ started = <<>>

\* main lines 146-147: the input path does not exist.
MainRejects ==
    /\ epc = "main" /\ ~ request.exists
    /\ exit_code' = 1
    /\ epc' = "exited"
    /\ UNCHANGED <<request, schema_class, eresult, eraised>>
    /\ UNCHANGED <<mergeVars, pipeVars, bridgeVars, runsVars>>

\* main line 149 and extract_from_file_async lines 75-89: the output
\* directory is made and a file at the output path removed. os.makedirs and
\* unlink are outside the try block: an OSError of theirs leaves the
\* function.
PrepareOutput ==
    /\ epc = "main" /\ request.exists
    /\ IF \/ request.outputs = "mkdir_fails"
          \/ (request.outputs = "unlink_fails" /\ output_file # NoValue)
       THEN /\ eraised' = "OSError"
            /\ epc' = "raised"
            /\ UNCHANGED output_file
       ELSE /\ output_file' = AfterUnlink(output_file)
            /\ epc' = "prepared"
            /\ UNCHANGED eraised
    /\ UNCHANGED <<request, schema_class, eresult, exit_code>>
    /\ UNCHANGED <<input_path, documents, results, awaiting, llm, caught, returned,
                   pc, started>>
    /\ UNCHANGED <<mergeVars, bridgeVars, runsVars>>

\* Lines 90-92: the credential is read, ValueError without it.
CheckCredential ==
    /\ epc = "prepared"
    /\ IF request.has_key
       THEN epc' = "try" /\ UNCHANGED eraised
       ELSE epc' = "raised" /\ eraised' = "ValueError"
    /\ UNCHANGED <<request, schema_class, eresult, exit_code>>
    /\ UNCHANGED <<mergeVars, pipeVars, bridgeVars, runsVars>>

\* Lines 93-108 and 110-112: the schema class and the prompt are looked up
\* and run_extraction_pipeline is called; an ImportError of the look-up is
\* returned as an error mapping.
LookUpSchema ==
    /\ epc = "try"
    /\ schema_class' = load_schema(request.schema)
    /\ LET failure == IF schema_class'.raised THEN schema_class'
                      ELSE get_prompt_of(request.schema)
       IN IF failure.raised
          THEN /\ eresult' = FailedToProcess(failure.message)
               /\ epc' = "returned"
               /\ UNCHANGED pc
          ELSE /\ pc' = "start"
               /\ epc' = "in_pipeline"
               /\ UNCHANGED eresult
    /\ UNCHANGED <<request, eraised, exit_code>>
    /\ UNCHANGED <<input_path, output_file, documents, results, awaiting, llm, caught,
                   returned, started>>
    /\ UNCHANGED <<mergeVars, bridgeVars, runsVars>>

\* Lines 101-112: run_extraction_pipeline returns and its value is returned,
\* or an exception leaves it and the except clause returns an error mapping.
PipelineEnds ==
    /\ epc = "in_pipeline" /\ pc = "done"
    /\ eresult' = IF returned.kind = "raised" THEN FailedToProcess(WriteErrorText)
                  ELSE returned
    /\ epc' = "returned"
    /\ UNCHANGED <<request, schema_class, eraised, exit_code>>
    /\ UNCHANGED <<mergeVars, pipeVars, bridgeVars, runsVars>>

\* main lines 148-152: 0 when extract_from_file returned, 1 when an
\* exception left it.
MainExits ==
    /\ epc \in {"returned", "raised"}
    /\ exit_code' = IF epc = "raised" THEN 1 ELSE 0
    /\ epc' = "exited"
    /\ UNCHANGED <<request, schema_class, eresult, eraised>>
    /\ UNCHANGED <<mergeVars, pipeVars, bridgeVars, runsVars>>

EntryNext ==
    \/ MainRejects
    \/ PrepareOutput
    \/ CheckCredential
    \/ LookUpSchema
    \/ LoadDocuments
    \/ WriteEmpty
    \/ StartExtraction
    \/ FinishExtraction
    \/ WriteOutput
    \/ WriteOutputFails
    \/ PipelineEnds
    \/ MainExits

SpecEntry == EntryInit /\ [][EntryNext]_vars

\* ------------------------------------------------ claims on the entry point
\* A schema name that stands for no module or for one that lacks an accessor.
BadSchema(m) == ~ ModuleExists(m) \/ ~ HasGetSchema(m) \/ ~ HasGetPrompt(m)
\* extract_from_file_async is over: it returned or an exception left it.
EntryOver ==
    \/ epc \in {"returned", "raised"}
    \/ (epc = "exited" /\ request.exists)
\* The run got as far as the credential check and stopped there.
StoppedOnCredential == EntryOver /\ eraised = "ValueError"
\* The run got as far as the look-up of the schema and stopped there.
StoppedOnSchema == EntryOver /\ eraised = "none" /\ BadSchema(request.schema)
HasErrorKey(v) == v.kind = "dict" /\ "error" \in DOMAIN v.map

\* C21: a run that ends on a missing credential or on an unknown or
\* malformed schema has loaded no document and started no LLM call:
\* run_extraction_pipeline was never entered.
C21_StopsBeforeDocumentWork ==
    (StoppedOnCredential \/ StoppedOnSchema) =>
        /\ pc = "idle"
        /\ documents = <<>>
        /\ started = <<>> /\ llm = <<>> /\ results = <<>>
\* A run on a readable PDF with the credential set has ended on a module
\* that lacks get_prompt.
C21_Witness ==
    /\ StoppedOnSchema
    /\ request.schema = "no_get_prompt" /\ request.has_key
    /\ input_path = [isDir |-> FALSE, files |-> {FileA}]
    /\ HasErrorKey(eresult)

\* The error of load_schema as the two kinds the claim tells apart.
NotFoundTypes == {load_schema(m).type : m \in {x \in SchemaModules : ~ ModuleExists(x)}}
MalformedTypes ==
    {load_schema(m).type :
        m \in {x \in SchemaModules :
                 ModuleExists(x) /\ (~ HasGetSchema(x) \/ ~ HasGetPrompt(x))}}
\* C22: load_schema fails for a name with no module with an error of a type
\* it uses for nothing else, fails for a module that lacks get_schema or
\* get_prompt, and succeeds only for a module that has both.
C22_SchemaErrors ==
    schema_class # NotLoaded =>
        LET m == request.schema
        IN /\ ~ ModuleExists(m) =>
                 (schema_class.raised /\ schema_class.type \notin MalformedTypes)
           /\ (ModuleExists(m) /\ BadSchema(m)) =>
                 (schema_class.raised /\ schema_class.type \notin NotFoundTypes)
           /\ ~ schema_class.raised => (HasGetSchema(m) /\ HasGetPrompt(m))

\* The run failed: an exception left extract_from_file_async, or it returned
\* an error mapping.
ExtractionFailed == eraised # "none" \/ HasErrorKey(eresult)
\* C25: the exit code is 1 when the input path does not exist or the
\* extraction fails (an unknown schema, a missing credential and an error of
\* the pipeline included), and 0 otherwise.
C25_ExitCode ==
    epc = "exited" =>
        exit_code = (IF ~ request.exists \/ ExtractionFailed THEN 1 ELSE 0)

\* C28: a run that stops on a missing credential, an unknown schema or a
\* missing prompt accessor leaves no file at the output path, whatever was
\* there before.
C28_StaleOutputRemoved ==
    (StoppedOnCredential \/ StoppedOnSchema) => output_file = NoValue
\* A run has stopped on the missing credential and the file of an earlier
\* run is gone.
C28_Witness ==
    /\ StoppedOnCredential
    /\ ~ request.has_key
    /\ request.stale
    /\ output_file = NoValue
    /\ epc = "raised"

\* A file of the input that a loader is given and cannot read.
LoadFailure ==
    \E f \in input_path.files : HandedToLoader(f) /\ ~ f.readable
\* Something failed in the look-up of the schema or the prompt, the loading,
\* the extraction or the writing of the output.
SomeFailure ==
    \/ BadSchema(request.schema)
    \/ (pc # "idle" /\ LoadFailure)
    \/ \E i \in 1..Len(llm) : llm[i] = "raise"
    \/ caught # "none"
    \/ returned.kind = "raised"
\* C29 as written: with the credential set extract_from_file_async never
\* raises, and any failure of schema look-up, prompt look-up, loading,
\* extraction or output writing is returned as a mapping with an error key.
C29_NeverRaisesWithCredential ==
    (EntryOver /\ request.has_key) =>
        /\ eraised = "none"
        /\ SomeFailure => HasErrorKey(eresult)
\* An exception left run_extraction_pipeline or was caught by its except
\* clause.
PipelineException == caught # "none" \/ returned.kind = "raised"
\* C29, amended: once the try block is reached extract_from_file_async does
\* not raise; a failed look-up of the schema or the prompt and an exception
\* of run_extraction_pipeline are returned as a mapping with an error key;
\* without such an exception the value of run_extraction_pipeline is
\* returned as it is.
C29_NeverRaisesInsideTry ==
    (EntryOver /\ schema_class # NotLoaded) =>
        /\ eraised = "none"
        /\ BadSchema(request.schema) => HasErrorKey(eresult)
        /\ (pc = "done" /\ PipelineException) => HasErrorKey(eresult)
        /\ (pc = "done" /\ ~ PipelineException) => eresult = returned
\* The write of the empty value raised inside run_extraction_pipeline and
\* extract_from_file_async returned an error mapping.
C29_Witness ==
    /\ EntryOver /\ request.has_key
    /\ pc = "done" /\ returned.kind = "raised"
    /\ eresult = FailedToProcess(WriteErrorText)

\* ------------------------------------------- two invocations at once
\* The inputs of concurrent invocations: files and directories, among them
\* two files of one directory with the same stem.
RunInputs ==
    {[kind |-> "file", dir |-> "in", stem |-> "a", ext |-> ".pdf"],
     [kind |-> "file", dir |-> "in", stem |-> "a", ext |-> ".txt"],
     [kind |-> "file", dir |-> "in", stem |-> "b", ext |-> ".pdf"],
     [kind |-> "dir", dir |-> "in", stem |-> "in", ext |-> ""],
     [kind |-> "dir", dir |-> "in2", stem |-> "in2", ext |-> ""]}
\* Lines 78-87 with output_dir None: <parent>/outputs/<stem>.json for a file,
\* <directory>/outputs/extracted_data.json for a directory.
OutputPathOf(input) ==
    IF input.kind = "file"
    THEN <<input.dir, "/", "outputs", "/", input.stem, ".json">>
    ELSE <<input.dir, "/", "outputs", "/", "extracted_data", ".json">>
OutputPaths == {OutputPathOf(i) : i \in RunInputs}
RunIds == {1, 2}
RunName(i) == IF i = 1 THEN "run1" ELSE "run2"
\* An invocation that has just been entered.
NewRun(input) == [input |-> input, rpc |-> "start"]

\* A path holds no file, the file of an earlier run, or the file one of the
\* two runs wrote; lost is the set of runs whose file at the path another
\* run removed or wrote over.
RunsInit ==
    /\ MergeIdle
    /\ PipeIdle
    /\ BridgeIdle
    /\ EntryIdle
    /\ runs \in {r \in [RunIds -> {NewRun(i) : i \in RunInputs}] :
                    r[1].input # r[2].input}
    /\ fs \in [OutputPaths -> {[holds |-> h, lost |-> {}] : h \in {"absent", "stale"}}]

\* The runs other than i whose file the path holds.
OthersFileAt(p, i) ==
    IF fs[p].holds \in {RunName(j) : j \in RunIds \ {i}} THEN {fs[p].holds} ELSE {}

\* Lines 75-89 in run i: the output path is computed and a file there is
\* removed.
RunPrepares(i) ==
    /\ runs[i].rpc = "start"
    /\ LET p == OutputPathOf(runs[i].input)
       IN fs' = [fs EXCEPT ![p] = [holds |-> "absent",
                                   lost |-> fs[p].lost \cup OthersFileAt(p, i)]]
    /\ runs' = [runs EXCEPT ![i].rpc = "prepared"]
    /\ UNCHANGED <<mergeVars, pipeVars, bridgeVars, entryVars>>

\* Lines 90-108 and run_pipeline.py 104-134 in run i: credential, schema,
\* loading and the awaited LLM calls, during which the other run may go on.
RunExtracts(i) ==
    /\ runs[i].rpc = "prepared"
    /\ runs' = [runs EXCEPT ![i].rpc = "extracted"]
    /\ UNCHANGED fs
    /\ UNCHANGED <<mergeVars, pipeVars, bridgeVars, entryVars>>

\* run_pipeline.py 115-116, 125-126, 136-137 in run i: the output file is
\* opened for writing and the results dumped.
RunWrites(i) ==
    /\ runs[i].rpc = "extracted"
    /\ LET p == OutputPathOf(runs[i].input)
       IN fs' = [fs EXCEPT ![p] = [holds |-> RunName(i),
                                   lost |-> fs[p].lost \cup OthersFileAt(p, i)]]
    /\ runs' = [runs EXCEPT ![i].rpc = "done"]
    /\ UNCHANGED <<mergeVars, pipeVars, bridgeVars, entryVars>>

RunsNext == \E i \in RunIds : RunPrepares(i) \/ RunExtracts(i) \/ RunWrites(i)

SpecRuns == RunsInit /\ [][RunsNext]_vars

\* C23: of two runs on distinct inputs neither removes nor writes over the
\* file the other wrote, and when both are done each one's output path holds
\* the file it wrote.
C23_OwnOutputFile ==
    runs # <<>> =>
        /\ \A p \in OutputPaths : fs[p].lost = {}
        /\ (\A i \in RunIds : runs[i].rpc = "done") =>
              \A i \in RunIds : fs[OutputPathOf(runs[i].input)].holds = RunName(i)

====
